---------------------------- MODULE Spec2Model ----------------------------
(***************************************************************************)
(* A model of pathvector's configuration core (config.go):                 *)
(*   - loadConfig: strict YAML decode, validation, default filling and     *)
(*     the address-family normalisation pass;                              *)
(*   - documentConfigTypes: the reflective walk over the schema types that *)
(*     prints one markdown table per configuration struct.                 *)
(* Scalars are kept as the literal text YAML and the struct tags give them *)
(* ("100", "true", "rr.ntt.net"); the zero value of a Go type is "" for a  *)
(* string, "false" for a bool and "0" for the integer types.               *)
(***************************************************************************)
EXTENDS Naturals, Sequences, FiniteSets, TLC

(***************************************************************************)
(* The schema: one record per struct field, in declaration order.          *)
(*   name        the Go field name                                         *)
(*   key         the yaml tag (the wire key; "-" is never decoded)         *)
(*   typ         field.Type.String()                                       *)
(*   shown       typ with every "main." removed (strings.Replace)          *)
(*   default     the default tag ("" when the field declares none)         *)
(*   validate    the validate tag; rules is its comma-separated set        *)
(*   kind/child  for a type whose name contains "main.": the reflect kind  *)
(*               and the struct (or element) type that gets its own table  *)
(*   description the description tag                                       *)
(***************************************************************************)

\* type peer struct (fields in declaration order), src lines 24-83
peerFields ==
  <<
    [name |-> "Description", key |-> "description", typ |-> "string", shown |-> "string",
     default |-> "", validate |-> "", rules |-> {},
     kind |-> "scalar", child |-> "",
     description |-> "Peer description"],
    [name |-> "Disabled", key |-> "disabled", typ |-> "bool", shown |-> "bool",
     default |-> "", validate |-> "", rules |-> {},
     kind |-> "scalar", child |-> "",
     description |-> "Should the sessions be disabled?"],
    [name |-> "ASN", key |-> "asn", typ |-> "uint", shown |-> "uint",
     default |-> "", validate |-> "required", rules |-> {"required"},
     kind |-> "scalar", child |-> "",
     description |-> "Local ASN"],
    [name |-> "NeighborIPs", key |-> "neighbors", typ |-> "[]string", shown |-> "[]string",
     default |-> "", validate |-> "required,ip", rules |-> {"required", "ip"},
     kind |-> "slice", child |-> "",
     description |-> "List of neighbor IPs"],
    [name |-> "Prepends", key |-> "prepends", typ |-> "uint", shown |-> "uint",
     default |-> "0", validate |-> "", rules |-> {},
     kind |-> "scalar", child |-> "",
     description |-> "Number of times to prepend local AS on export"],
    [name |-> "LocalPref", key |-> "local-pref", typ |-> "uint", shown |-> "uint",
     default |-> "100", validate |-> "", rules |-> {},
     kind |-> "scalar", child |-> "",
     description |-> "BGP local preference"],
    [name |-> "Multihop", key |-> "multihop", typ |-> "bool", shown |-> "bool",
     default |-> "false", validate |-> "", rules |-> {},
     kind |-> "scalar", child |-> "",
     description |-> "Should BGP multihop be enabled? (255 max hops)"],
    [name |-> "Listen", key |-> "listen", typ |-> "string", shown |-> "string",
     default |-> "", validate |-> "", rules |-> {},
     kind |-> "scalar", child |-> "",
     description |-> "BGP listen address"],
    [name |-> "LocalPort", key |-> "local-port", typ |-> "uint16", shown |-> "uint16",
     default |-> "179", validate |-> "", rules |-> {},
     kind |-> "scalar", child |-> "",
     description |-> "Local TCP port"],
    [name |-> "NeighborPort", key |-> "neighbor-port", typ |-> "uint16", shown |-> "uint16",
     default |-> "179", validate |-> "", rules |-> {},
     kind |-> "scalar", child |-> "",
     description |-> "Neighbor TCP port"],
    [name |-> "Passive", key |-> "passive", typ |-> "bool", shown |-> "bool",
     default |-> "false", validate |-> "", rules |-> {},
     kind |-> "scalar", child |-> "",
     description |-> "Should we listen passively?"],
    [name |-> "NextHopSelf", key |-> "next-hop-self", typ |-> "bool", shown |-> "bool",
     default |-> "false", validate |-> "", rules |-> {},
     kind |-> "scalar", child |-> "",
     description |-> "Should BGP next-hop-self be enabled?"],
    [name |-> "BFD", key |-> "bfd", typ |-> "bool", shown |-> "bool",
     default |-> "false", validate |-> "", rules |-> {},
     kind |-> "scalar", child |-> "",
     description |-> "Should BFD be enabled?"],
    [name |-> "Communities", key |-> "communities", typ |-> "[]string", shown |-> "[]string",
     default |-> "", validate |-> "", rules |-> {},
     kind |-> "slice", child |-> "",
     description |-> "List of communities to add on export"],
    [name |-> "LargeCommunities", key |-> "large-communities", typ |-> "[]string", shown |-> "[]string",
     default |-> "", validate |-> "", rules |-> {},
     kind |-> "slice", child |-> "",
     description |-> "List of large communities to add on export"],
    [name |-> "Password", key |-> "password", typ |-> "string", shown |-> "string",
     default |-> "", validate |-> "", rules |-> {},
     kind |-> "scalar", child |-> "",
     description |-> "BGP MD5 password"],
    [name |-> "RSClient", key |-> "rs-client", typ |-> "bool", shown |-> "bool",
     default |-> "false", validate |-> "", rules |-> {},
     kind |-> "scalar", child |-> "",
     description |-> "Should this peer be a route server client?"],
    [name |-> "RRClient", key |-> "rr-client", typ |-> "bool", shown |-> "bool",
     default |-> "false", validate |-> "", rules |-> {},
     kind |-> "scalar", child |-> "",
     description |-> "Should this peer be a route reflector client?"],
    [name |-> "RemovePrivateASNs", key |-> "remove-private-as", typ |-> "bool", shown |-> "bool",
     default |-> "true", validate |-> "", rules |-> {},
     kind |-> "scalar", child |-> "",
     description |-> "Should private ASNs be removed from path before exporting?"],
    [name |-> "MPUnicast46", key |-> "mp-unicast-46", typ |-> "bool", shown |-> "bool",
     default |-> "false", validate |-> "", rules |-> {},
     kind |-> "scalar", child |-> "",
     description |-> "Should this peer be configured with multiprotocol IPv4 and IPv6 unicast?"],
    [name |-> "ASSet", key |-> "as-set", typ |-> "string", shown |-> "string",
     default |-> "", validate |-> "", rules |-> {},
     kind |-> "scalar", child |-> "",
     description |-> "Peer's as-set for filtering"],
    [name |-> "ImportLimit4", key |-> "import-limit4", typ |-> "uint", shown |-> "uint",
     default |-> "1000000", validate |-> "", rules |-> {},
     kind |-> "scalar", child |-> "",
     description |-> "Maximum number of IPv4 prefixes to import"],
    [name |-> "ImportLimit6", key |-> "import-limit6", typ |-> "uint", shown |-> "uint",
     default |-> "100000", validate |-> "", rules |-> {},
     kind |-> "scalar", child |-> "",
     description |-> "Maximum number of IPv6 prefixes to import"],
    [name |-> "EnforceFirstAS", key |-> "enforce-first-as", typ |-> "bool", shown |-> "bool",
     default |-> "true", validate |-> "", rules |-> {},
     kind |-> "scalar", child |-> "",
     description |-> "Should we only accept routes who's first AS is equal to the configured peer address?"],
    [name |-> "EnforcePeerNexthop", key |-> "enforce-peer-nexthop", typ |-> "bool", shown |-> "bool",
     default |-> "true", validate |-> "", rules |-> {},
     kind |-> "scalar", child |-> "",
     description |-> "Should we only accept routes with a next hop equal to the configured neighbor address?"],
    [name |-> "MaxPrefixTripAction", key |-> "max-prefix-action", typ |-> "string", shown |-> "string",
     default |-> "disable", validate |-> "", rules |-> {},
     kind |-> "scalar", child |-> "",
     description |-> "What action should be taken when the max prefix limit is tripped?"],
    [name |-> "AllowBlackholeCommunity", key |-> "allow-blackhole-community", typ |-> "bool", shown |-> "bool",
     default |-> "false", validate |-> "", rules |-> {},
     kind |-> "scalar", child |-> "",
     description |-> "Should this peer be allowed to send routes with the blackhole community?"],
    [name |-> "FilterIRR", key |-> "filter-irr", typ |-> "bool", shown |-> "bool",
     default |-> "true", validate |-> "", rules |-> {},
     kind |-> "scalar", child |-> "",
     description |-> "Should IRR filtering be applied?"],
    [name |-> "FilterRPKI", key |-> "filter-rpki", typ |-> "bool", shown |-> "bool",
     default |-> "true", validate |-> "", rules |-> {},
     kind |-> "scalar", child |-> "",
     description |-> "Should RPKI invalids be rejected?"],
    [name |-> "FilterMaxPrefix", key |-> "filter-max-prefix", typ |-> "bool", shown |-> "bool",
     default |-> "true", validate |-> "", rules |-> {},
     kind |-> "scalar", child |-> "",
     description |-> "Should max prefix filtering be applied?"],
    [name |-> "FilterBogons", key |-> "filter-bogons", typ |-> "bool", shown |-> "bool",
     default |-> "true", validate |-> "", rules |-> {},
     kind |-> "scalar", child |-> "",
     description |-> "Should bogon prefixes be rejected?"],
    [name |-> "FilterTier1ASNs", key |-> "filter-tier1-asns", typ |-> "bool", shown |-> "bool",
     default |-> "false", validate |-> "", rules |-> {},
     kind |-> "scalar", child |-> "",
     description |-> "Should paths containing 'Tier 1' ASNs be rejected (Peerlock Lite)?'"],
    [name |-> "AutoImportLimits", key |-> "auto-import-limits", typ |-> "bool", shown |-> "bool",
     default |-> "false", validate |-> "", rules |-> {},
     kind |-> "scalar", child |-> "",
     description |-> "Get import limits automatically from PeeringDB?"],
    [name |-> "AutoASSet", key |-> "auto-as-set", typ |-> "bool", shown |-> "bool",
     default |-> "false", validate |-> "", rules |-> {},
     kind |-> "scalar", child |-> "",
     description |-> "Get as-set automatically from PeeringDB?"],
    [name |-> "Prefixes", key |-> "prefixes", typ |-> "[]string", shown |-> "[]string",
     default |-> "", validate |-> "", rules |-> {},
     kind |-> "slice", child |-> "",
     description |-> "Prefixes to accept"],
    [name |-> "AnnounceDefault", key |-> "announce-default", typ |-> "bool", shown |-> "bool",
     default |-> "false", validate |-> "", rules |-> {},
     kind |-> "scalar", child |-> "",
     description |-> "Should a default route be exported to this peer?"],
    [name |-> "AnnounceSpecifics", key |-> "announce-specifics", typ |-> "bool", shown |-> "bool",
     default |-> "true", validate |-> "", rules |-> {},
     kind |-> "scalar", child |-> "",
     description |-> "Should more specific routes be exported to this peer?"],
    [name |-> "SessionGlobal", key |-> "session-global", typ |-> "string", shown |-> "string",
     default |-> "", validate |-> "", rules |-> {},
     kind |-> "scalar", child |-> "",
     description |-> "Configuration to add to each session before any defined BGP protocols"],
    [name |-> "PreImport", key |-> "pre-import", typ |-> "string", shown |-> "string",
     default |-> "", validate |-> "", rules |-> {},
     kind |-> "scalar", child |-> "",
     description |-> "Configuration to add at the beginning of the import filter"],
    [name |-> "PreExport", key |-> "pre-export", typ |-> "string", shown |-> "string",
     default |-> "", validate |-> "", rules |-> {},
     kind |-> "scalar", child |-> "",
     description |-> "Configuration to add at the beginning of the export filter"],
    [name |-> "PreImportFinal", key |-> "pre-import-final", typ |-> "string", shown |-> "string",
     default |-> "", validate |-> "", rules |-> {},
     kind |-> "scalar", child |-> "",
     description |-> "Configuration to add immediately before the final accept/reject on import"],
    [name |-> "PreExportFinal", key |-> "pre-export-final", typ |-> "string", shown |-> "string",
     default |-> "", validate |-> "", rules |-> {},
     kind |-> "scalar", child |-> "",
     description |-> "Configuration to add immediately before the final accept/reject on export"],
    [name |-> "ProtocolName", key |-> "-", typ |-> "string", shown |-> "string",
     default |-> "", validate |-> "", rules |-> {},
     kind |-> "scalar", child |-> "",
     description |-> "-"],
    [name |-> "Protocols", key |-> "-", typ |-> "[]string", shown |-> "[]string",
     default |-> "", validate |-> "", rules |-> {},
     kind |-> "slice", child |-> "",
     description |-> "-"],
    [name |-> "PrefixSet4", key |-> "-", typ |-> "[]string", shown |-> "[]string",
     default |-> "", validate |-> "", rules |-> {},
     kind |-> "slice", child |-> "",
     description |-> "-"],
    [name |-> "PrefixSet6", key |-> "-", typ |-> "[]string", shown |-> "[]string",
     default |-> "", validate |-> "", rules |-> {},
     kind |-> "slice", child |-> "",
     description |-> "-"]
  >>

\* type vrrpInstance struct (fields in declaration order), src lines 85-94
vrrpInstanceFields ==
  <<
    [name |-> "State", key |-> "state", typ |-> "string", shown |-> "string",
     default |-> "", validate |-> "required", rules |-> {"required"},
     kind |-> "scalar", child |-> "",
     description |-> "VRRP instance state ('primary' or 'backup')"],
    [name |-> "Interface", key |-> "interface", typ |-> "string", shown |-> "string",
     default |-> "", validate |-> "required", rules |-> {"required"},
     kind |-> "scalar", child |-> "",
     description |-> "Interface to send VRRP packets on"],
    [name |-> "VRID", key |-> "vrid", typ |-> "uint", shown |-> "uint",
     default |-> "", validate |-> "required", rules |-> {"required"},
     kind |-> "scalar", child |-> "",
     description |-> "RFC3768 VRRP Virtual Router ID (1-255)"],
    [name |-> "Priority", key |-> "priority", typ |-> "uint8", shown |-> "uint8",
     default |-> "", validate |-> "required", rules |-> {"required"},
     kind |-> "scalar", child |-> "",
     description |-> "RFC3768 VRRP Priority"],
    [name |-> "VIPs", key |-> "vips", typ |-> "[]string", shown |-> "[]string",
     default |-> "", validate |-> "required,cidr", rules |-> {"required", "cidr"},
     kind |-> "slice", child |-> "",
     description |-> "List of virtual IPs"],
    [name |-> "VIPs4", key |-> "-", typ |-> "[]string", shown |-> "[]string",
     default |-> "", validate |-> "", rules |-> {},
     kind |-> "slice", child |-> "",
     description |-> "-"],
    [name |-> "VIPs6", key |-> "-", typ |-> "[]string", shown |-> "[]string",
     default |-> "", validate |-> "", rules |-> {},
     kind |-> "slice", child |-> "",
     description |-> "-"]
  >>

\* type augments struct (fields in declaration order), src lines 96-105
augmentsFields ==
  <<
    [name |-> "Accept4", key |-> "accept4", typ |-> "[]string", shown |-> "[]string",
     default |-> "", validate |-> "", rules |-> {},
     kind |-> "slice", child |-> "",
     description |-> "List of BIRD protocols to import into the IPv4 table"],
    [name |-> "Accept6", key |-> "accept6", typ |-> "[]string", shown |-> "[]string",
     default |-> "", validate |-> "", rules |-> {},
     kind |-> "slice", child |-> "",
     description |-> "List of BIRD protocols to import into the IPv6 table"],
    [name |-> "Reject4", key |-> "reject4", typ |-> "[]string", shown |-> "[]string",
     default |-> "", validate |-> "", rules |-> {},
     kind |-> "slice", child |-> "",
     description |-> "List of BIRD protocols to not import into the IPv4 table"],
    [name |-> "Reject6", key |-> "reject6", typ |-> "[]string", shown |-> "[]string",
     default |-> "", validate |-> "", rules |-> {},
     kind |-> "slice", child |-> "",
     description |-> "List of BIRD protocols to not import into the IPv6 table"],
    [name |-> "Statics", key |-> "statics", typ |-> "map[string]string", shown |-> "map[string]string",
     default |-> "", validate |-> "", rules |-> {},
     kind |-> "map", child |-> "",
     description |-> "List of static routes to include in BIRD"],
    [name |-> "Statics4", key |-> "-", typ |-> "map[string]string", shown |-> "map[string]string",
     default |-> "", validate |-> "", rules |-> {},
     kind |-> "map", child |-> "",
     description |-> "-"],
    [name |-> "Statics6", key |-> "-", typ |-> "map[string]string", shown |-> "map[string]string",
     default |-> "", validate |-> "", rules |-> {},
     kind |-> "map", child |-> "",
     description |-> "-"]
  >>

\* type config struct (fields in declaration order), src lines 107-138
configFields ==
  <<
    [name |-> "ASN", key |-> "asn", typ |-> "uint", shown |-> "uint",
     default |-> "", validate |-> "required", rules |-> {"required"},
     kind |-> "scalar", child |-> "",
     description |-> "Autonomous System Number"],
    [name |-> "Prefixes", key |-> "prefixes", typ |-> "[]string", shown |-> "[]string",
     default |-> "", validate |-> "", rules |-> {},
     kind |-> "slice", child |-> "",
     description |-> "List of prefixes to announce"],
    [name |-> "Communities", key |-> "communities", typ |-> "[]string", shown |-> "[]string",
     default |-> "", validate |-> "", rules |-> {},
     kind |-> "slice", child |-> "",
     description |-> "List of RFC1997 BGP communities"],
    [name |-> "LargeCommunities", key |-> "large-communities", typ |-> "[]string", shown |-> "[]string",
     default |-> "", validate |-> "", rules |-> {},
     kind |-> "slice", child |-> "",
     description |-> "List of RFC8092 large BGP communities"],
    [name |-> "RouterID", key |-> "router-id", typ |-> "string", shown |-> "string",
     default |-> "", validate |-> "required", rules |-> {"required"},
     kind |-> "scalar", child |-> "",
     description |-> "Router ID (dotted quad notation)"],
    [name |-> "IRRServer", key |-> "irr-server", typ |-> "string", shown |-> "string",
     default |-> "rr.ntt.net", validate |-> "", rules |-> {},
     kind |-> "scalar", child |-> "",
     description |-> "Internet routing registry server"],
    [name |-> "RTRServer", key |-> "rtr-server", typ |-> "string", shown |-> "string",
     default |-> "rtr.rpki.cloudflare.com", validate |-> "", rules |-> {},
     kind |-> "scalar", child |-> "",
     description |-> "RPKI-to-router server"],
    [name |-> "RTRPort", key |-> "rtr-port", typ |-> "int", shown |-> "int",
     default |-> "8282", validate |-> "", rules |-> {},
     kind |-> "scalar", child |-> "",
     description |-> "RPKI-to-router port"],
    [name |-> "KeepFiltered", key |-> "keep-filtered", typ |-> "bool", shown |-> "bool",
     default |-> "false", validate |-> "", rules |-> {},
     kind |-> "scalar", child |-> "",
     description |-> "Should filtered routes be kept in memory?"],
    [name |-> "MergePaths", key |-> "merge-paths", typ |-> "bool", shown |-> "bool",
     default |-> "false", validate |-> "", rules |-> {},
     kind |-> "scalar", child |-> "",
     description |-> "Should best and equivalent non-best routes be imported for ECMP?"],
    [name |-> "Source4", key |-> "source4", typ |-> "string", shown |-> "string",
     default |-> "", validate |-> "", rules |-> {},
     kind |-> "scalar", child |-> "",
     description |-> "Source IPv4 address"],
    [name |-> "Source6", key |-> "source6", typ |-> "string", shown |-> "string",
     default |-> "", validate |-> "", rules |-> {},
     kind |-> "scalar", child |-> "",
     description |-> "Source IPv6 address"],
    [name |-> "AcceptDefault", key |-> "accept-default", typ |-> "bool", shown |-> "bool",
     default |-> "false", validate |-> "", rules |-> {},
     kind |-> "scalar", child |-> "",
     description |-> "Should default routes be added to the bogon list?"],
    [name |-> "BirdDirectory", key |-> "bird-directory", typ |-> "string", shown |-> "string",
     default |-> "/etc/bird/", validate |-> "", rules |-> {},
     kind |-> "scalar", child |-> "",
     description |-> "Directory to store BIRD configs"],
    [name |-> "BirdSocket", key |-> "bird-socket", typ |-> "string", shown |-> "string",
     default |-> "/run/bird/bird.ctl", validate |-> "", rules |-> {},
     kind |-> "scalar", child |-> "",
     description |-> "UNIX control socket for BIRD"],
    [name |-> "KeepalivedConfig", key |-> "keepalived-config", typ |-> "string", shown |-> "string",
     default |-> "/etc/keepalived.conf", validate |-> "", rules |-> {},
     kind |-> "scalar", child |-> "",
     description |-> "Configuration file for keepalived"],
    [name |-> "WebUIFile", key |-> "web-ui-file", typ |-> "string", shown |-> "string",
     default |-> "/run/wireframe.html", validate |-> "", rules |-> {},
     kind |-> "scalar", child |-> "",
     description |-> "File to write web UI to"],
    [name |-> "PeeringDbQueryTimeout", key |-> "peeringdb-query-timeout", typ |-> "uint", shown |-> "uint",
     default |-> "10", validate |-> "", rules |-> {},
     kind |-> "scalar", child |-> "",
     description |-> "PeeringDB query timeout in seconds"],
    [name |-> "IRRQueryTimeout", key |-> "irr-query-timeout", typ |-> "uint", shown |-> "uint",
     default |-> "30", validate |-> "", rules |-> {},
     kind |-> "scalar", child |-> "",
     description |-> "IRR query timeout in seconds"],
    [name |-> "Peers", key |-> "peers", typ |-> "map[string]*main.peer", shown |-> "map[string]*peer",
     default |-> "", validate |-> "", rules |-> {},
     kind |-> "map", child |-> "*main.peer",
     description |-> "BGP peer configuration"],
    [name |-> "Interfaces", key |-> "interfaces", typ |-> "map[string]main.iface", shown |-> "map[string]iface",
     default |-> "", validate |-> "", rules |-> {},
     kind |-> "map", child |-> "main.iface",
     description |-> "Network interface configuration"],
    [name |-> "VRRPInstances", key |-> "vrrp", typ |-> "[]main.vrrpInstance", shown |-> "[]vrrpInstance",
     default |-> "", validate |-> "", rules |-> {},
     kind |-> "slice", child |-> "main.vrrpInstance",
     description |-> "List of VRRP instances"],
    [name |-> "Augments", key |-> "augments", typ |-> "main.augments", shown |-> "augments",
     default |-> "", validate |-> "", rules |-> {},
     kind |-> "struct", child |-> "main.augments",
     description |-> "Custom configuration options"],
    [name |-> "Prefixes4", key |-> "-", typ |-> "[]string", shown |-> "[]string",
     default |-> "", validate |-> "", rules |-> {},
     kind |-> "slice", child |-> "",
     description |-> "-"],
    [name |-> "Prefixes6", key |-> "-", typ |-> "[]string", shown |-> "[]string",
     default |-> "", validate |-> "", rules |-> {},
     kind |-> "slice", child |-> "",
     description |-> "-"]
  >>

\* type iface struct (fields in declaration order), src lines 141-147
ifaceFields ==
  <<
    [name |-> "Mtu", key |-> "mtu", typ |-> "uint", shown |-> "uint",
     default |-> "1500", validate |-> "", rules |-> {},
     kind |-> "scalar", child |-> "",
     description |-> "Interface MTU (Maximum Transmission Unit)"],
    [name |-> "XDPRTR", key |-> "xdprtr", typ |-> "bool", shown |-> "bool",
     default |-> "false", validate |-> "", rules |-> {},
     kind |-> "scalar", child |-> "",
     description |-> "Should XDPRTR be loaded on this interface?"],
    [name |-> "Addresses", key |-> "addresses", typ |-> "[]string", shown |-> "[]string",
     default |-> "", validate |-> "", rules |-> {},
     kind |-> "slice", child |-> "",
     description |-> "List of addresses to add to this interface"],
    [name |-> "Dummy", key |-> "dummy", typ |-> "bool", shown |-> "bool",
     default |-> "false", validate |-> "", rules |-> {},
     kind |-> "scalar", child |-> "",
     description |-> "Should a new dummy interface be created with this configuration?"],
    [name |-> "Down", key |-> "down", typ |-> "bool", shown |-> "bool",
     default |-> "false", validate |-> "", rules |-> {},
     kind |-> "scalar", child |-> "",
     description |-> "Should the interface be set to a down state?"]
  >>
(***************************************************************************)
(* Helpers over the schema.                                                *)
(***************************************************************************)
Range(s) == {s[i] : i \in DOMAIN s}

\* The zero value of a scalar Go type, as a literal.
ZeroOf(typ) ==
  IF typ = "string" THEN "" ELSE IF typ = "bool" THEN "false" ELSE "0"

\* The fields of a struct that hold one scalar.
ScalarFields(fields) == {f \in Range(fields) : f.kind = "scalar"}

ScalarNames(fields) == {f.name : f \in ScalarFields(fields)}

FieldOf(fields, name) == CHOOSE f \in Range(fields) : f.name = name

\* The keys yaml decodes into a struct: every yaml tag but "-".
WireKeys(fields) == {f.key : f \in Range(fields)} \ {"-"}

\* The scalar fields of a struct that declare a default.
DefaultedNames(fields) == {f.name : f \in {g \in ScalarFields(fields) : g.default # ""}}

(***************************************************************************)
(* net.ParseCIDR and net.ParseIP on the address literals the model feeds   *)
(* in.  ParseCIDR accepts address/length; IP.To4 is non-nil for an IPv4    *)
(* address and for an IPv4-mapped IPv6 address (::ffff:a.b.c.d).           *)
(***************************************************************************)
V4CIDRs == {"192.0.2.0/24", "::ffff:192.0.2.0/120"}

V6CIDRs == {"2001:db8::/32"}

BadCIDRs == {"not-a-cidr", "192.0.2.1"}

CIDRStrings == V4CIDRs \cup V6CIDRs \cup BadCIDRs

\* err: ParseCIDR returned an error; to4: the parsed address has a 4-byte form.
ParseCIDR(s) == [err |-> s \notin (V4CIDRs \cup V6CIDRs), to4 |-> s \in V4CIDRs]

IPStrings == {"192.0.2.1", "not-an-ip"}

\* net.ParseIP(s) == nil
ParseIPNil(s) == s \notin {"192.0.2.1", "2001:db8::1"}

(***************************************************************************)
(* Input documents.  A document is the YAML mapping loadConfig is given:   *)
(*   root      the top-level scalar keys present, with their literals      *)
(*             (any key, declared or not)                                  *)
(*   prefixes  the "prefixes" list                                         *)
(*   statics   the "augments.statics" mapping, prefix -> next hop          *)
(*   vrrp      the "vrrp" list                                             *)
(*   peers     the "peers" mapping, name -> peer mapping, where set holds  *)
(*             the peer's scalar keys present in the document              *)
(* A key that is absent from the document is absent from the mapping.      *)
(***************************************************************************)
MaxPrefixes == 2

MaxStatics == 2

MaxVRRP == 2

MaxVIPs == 2

MaxPeers == 2

MaxPeerPrefixes == 2

MaxExplicit == 1

NumCalls == 2

Empty == [k \in {} |-> ""]

One(k, v) == [x \in {k} |-> v]

Merge(f, g) == [k \in DOMAIN f \cup DOMAIN g |-> IF k \in DOMAIN g THEN g[k] ELSE f[k]]

RECURSIVE KSubsets(_, _)
\* The subsets of S with at most n elements.
KSubsets(S, n) ==
  IF n = 0 THEN {{}}
  ELSE KSubsets(S, n - 1) \cup {T \cup {x} : T \in KSubsets(S, n - 1), x \in S}

SeqsUpTo(S, n) == UNION {[1..k -> S] : k \in 0..n}

MapsUpTo(K, V, n) == UNION {[D -> V] : D \in KSubsets(K, n)}

\* A non-zero literal of a scalar type.
SampleOf(typ) ==
  IF typ = "string" THEN "x" ELSE IF typ = "bool" THEN "true" ELSE "7"

\* The documents' settings of at most n of a struct's defaulted fields, each
\* set either to its type's zero value or to a non-zero value.
ExplicitSettings(fields, n) ==
  LET keyed == {f \in ScalarFields(fields) : f.default # ""}
      typOf(k) == (CHOOSE f \in keyed : f.key = k).typ
      lits == {"", "false", "0", "x", "true", "7"}
  IN UNION {{s \in [D -> lits] : \A k \in D : s[k] \in {ZeroOf(typOf(k)), SampleOf(typOf(k))}}
            : D \in KSubsets({f.key : f \in keyed}, n)}

ValidRoot == Merge(One("asn", "65001"), One("router-id", "1.1.1.1"))

\* Top-level scalars with "asn" and "router-id" absent, zero or set, and
\* possibly a key that no field declares.
RootHeaders ==
  {Merge(Merge(a, r), u) :
     a \in {Empty, One("asn", "0"), One("asn", "65001")},
     r \in {Empty, One("router-id", "1.1.1.1")},
     u \in {Empty, One("bogus-key", "x")}}

Neighbors(isSet, ips) == [set |-> isSet, val |-> ips]

PeerDoc(s, n, p) == [set |-> s, neighbors |-> n, prefixes |-> p]

ValidPeer == PeerDoc(One("asn", "65533"), Neighbors(TRUE, <<"192.0.2.1">>), <<>>)

VRRPDoc(st, vips) ==
  [state |-> st, interface |-> "eth0", vrid |-> "1", priority |-> "100", vips |-> vips]

StateTokens == {"primary", "backup", "master"}

PeerNameOf == <<"p1", "p2", "p3", "p4">>

\* The peers mappings with at most n peers, each drawn from choices.
PeerMaps(choices, n) == UNION {[{PeerNameOf[i] : i \in 1..k} -> choices] : k \in 0..n}

Document(root, prefixes, statics, vrrp, peers) ==
  [root |-> root, prefixes |-> prefixes, statics |-> statics, vrrp |-> vrrp,
   peers |-> peers]

\* Documents that vary the root "prefixes" list.
PrefixDocs ==
  {Document(ValidRoot, p, Empty, <<>>, Empty) : p \in SeqsUpTo(CIDRStrings, MaxPrefixes)}

\* Documents that vary the static routes.
StaticDocs ==
  {Document(ValidRoot, <<>>, s, <<>>, Empty) :
     s \in MapsUpTo(CIDRStrings, IPStrings, MaxStatics)}

\* Documents that vary the VRRP instances: one instance with several VIPs,
\* or several instances with one VIP each.
VRRPDocs ==
  {Document(ValidRoot, <<>>, Empty, <<VRRPDoc(st, v)>>, Empty) :
     st \in StateTokens, v \in SeqsUpTo(CIDRStrings, MaxVIPs)}
  \cup
  {Document(ValidRoot, <<>>, Empty, is, Empty) :
     is \in SeqsUpTo({VRRPDoc(st, <<v>>) : st \in StateTokens,
                                           v \in {"192.0.2.0/24", "2001:db8::/32", "not-a-cidr"}},
                     MaxVRRP)}

PeerValidationChoices ==
  {PeerDoc(s, n, <<>>) :
     s \in {Empty, One("asn", "65533")},
     n \in {Neighbors(FALSE, <<>>), Neighbors(TRUE, <<>>),
            Neighbors(TRUE, <<"192.0.2.1">>), Neighbors(TRUE, <<"not-an-ip">>)}}

\* Documents that vary the peers: what validation would look at, one peer
\* with several prefixes, or several peers with one prefix each.
PeerDocs ==
  {Document(ValidRoot, <<>>, Empty, <<>>, ps) :
     ps \in PeerMaps(PeerValidationChoices, MaxPeers)}
  \cup
  {Document(ValidRoot, <<>>, Empty, <<>>, One("p1", PeerDoc(ValidPeer.set, ValidPeer.neighbors, p))) :
     p \in SeqsUpTo(CIDRStrings, MaxPeerPrefixes)}
  \cup
  {Document(ValidRoot, <<>>, Empty, <<>>, ps) :
     ps \in PeerMaps({PeerDoc(ValidPeer.set, ValidPeer.neighbors, <<p>>) : p \in CIDRStrings},
                     MaxPeers)}

\* Documents that set defaulted fields explicitly, on the root or on a peer.
DefaultDocs ==
  {Document(Merge(ValidRoot, s), <<>>, Empty, <<>>, One("p1", ValidPeer)) :
     s \in ExplicitSettings(configFields, MaxExplicit)}
  \cup
  {Document(ValidRoot, <<>>, Empty, <<>>,
            One("p1", PeerDoc(Merge(ValidPeer.set, s), ValidPeer.neighbors, <<>>))) :
     s \in ExplicitSettings(peerFields, MaxExplicit)}

\* Documents with defects in several places at once.
MixedDocs ==
  {Document(h, p, s, v, ps) :
     h \in RootHeaders,
     p \in {<<>>, <<"2001:db8::/32">>, <<"not-a-cidr">>},
     s \in {Empty, One("192.0.2.0/24", "not-an-ip")},
     v \in {<<>>, <<VRRPDoc("master", <<"192.0.2.0/24">>)>>},
     ps \in {Empty, One("p1", PeerDoc(Empty, Neighbors(FALSE, <<>>), <<"192.0.2.1">>))}}

Documents ==
  PrefixDocs \cup StaticDocs \cup VRRPDocs \cup PeerDocs \cup DefaultDocs \cup MixedDocs

(***************************************************************************)
(* State.                                                                  *)
(*   doc           the document (configBlob) every call is given           *)
(*   call          which call of loadConfig is running (calls run one      *)
(*                 after the other, each building its own object graph)    *)
(*   pc            the position inside loadConfig                          *)
(*   config        loadConfig's local config struct                        *)
(*   todo          the keys a range over a map has not produced yet; Go    *)
(*                 leaves the order in which it produces them open         *)
(*   idx           the index of a range over a slice                       *)
(*   vrrpInstance  the loop variable of the VRRP range: a copy of the      *)
(*                 element, <<>> outside the loop                          *)
(*   phases        the phases this call has entered, in order              *)
(*   ret           what the call returned: config and err, each <<>> for   *)
(*                 nil or <<v>> for a value; <<>> while it runs            *)
(*   prev          what the previous call returned                         *)
(*   stack, out    documentConfigTypes' call stack and printed lines       *)
(***************************************************************************)
VARIABLES doc, call, pc, config, todo, idx, vrrpInstance, phases, ret, prev, stack, out

loadVars == <<doc, call, pc, config, todo, idx, vrrpInstance, phases, ret, prev>>

docVars == <<stack, out>>

vars == <<doc, call, pc, config, todo, idx, vrrpInstance, phases, ret, prev, stack, out>>

Nil == <<>>

\* A map[string]string field: nil until it is assigned a map.
NilMap == [isNil |-> TRUE, m |-> Empty]

EmptyMap == [isNil |-> FALSE, m |-> Empty]

MapPut(mp, k, v) ==
  [isNil |-> FALSE, m |-> [x \in DOMAIN mp.m \cup {k} |-> IF x = k THEN v ELSE mp.m[x]]]

Error(kind, cause) == [kind |-> kind, cause |-> cause]

\* return nil, errors.New(kind + ": " + cause)
Failure(kind, cause) == [config |-> Nil, err |-> <<Error(kind, cause)>>]

\* return &config, nil
Success(c) == [config |-> <<c>>, err |-> Nil]

\* The struct before decoding: every field at its zero value.
ZeroConfig ==
  [scalars |-> [n \in ScalarNames(configFields) |-> ZeroOf(FieldOf(configFields, n).typ)],
   Prefixes |-> <<>>, Prefixes4 |-> <<>>, Prefixes6 |-> <<>>,
   Peers |-> Empty, VRRPInstances |-> <<>>,
   Augments |-> [Statics |-> Empty, Statics4 |-> NilMap, Statics6 |-> NilMap]]

\* yaml decoding of a struct's scalar fields: a key that is present sets its
\* field, every other field keeps its zero value.
DecodeScalars(fields, present) ==
  [n \in ScalarNames(fields) |->
     LET f == FieldOf(fields, n)
     IN IF f.key # "-" /\ f.key \in DOMAIN present THEN present[f.key] ELSE ZeroOf(f.typ)]

DecodePeer(p) ==
  [scalars |-> DecodeScalars(peerFields, p.set),
   NeighborIPs |-> p.neighbors.val, Prefixes |-> p.prefixes,
   PrefixSet4 |-> <<>>, PrefixSet6 |-> <<>>]

DecodeVRRP(v) ==
  [State |-> v.state, Interface |-> v.interface, VRID |-> v.vrid,
   Priority |-> v.priority, VIPs |-> v.vips, VIPs4 |-> <<>>, VIPs6 |-> <<>>]

\* The keys yaml.UnmarshalStrict rejects: those no field of the struct declares.
\* (The collection keys of a document are declared keys by construction.)
\* UnknownKeysNonStrict is yaml.Unmarshal, which skips such keys.
UnknownKeysNonStrict(d) == {}

UnknownKeys(d) == DOMAIN d.root \ WireKeys(configFields)

\* The struct yaml.UnmarshalStrict fills in.
Unmarshal(d) ==
  [scalars |-> DecodeScalars(configFields, d.root),
   Prefixes |-> d.prefixes, Prefixes4 |-> <<>>, Prefixes6 |-> <<>>,
   Peers |-> [p \in DOMAIN d.peers |-> DecodePeer(d.peers[p])],
   VRRPInstances |-> [i \in DOMAIN d.vrrp |-> DecodeVRRP(d.vrrp[i])],
   Augments |-> [Statics |-> d.statics, Statics4 |-> NilMap, Statics6 |-> NilMap]]

\* validate.Struct(&config): the fields that fail their rules.  The validator
\* applies a field's rules to the field and walks into struct-typed fields
\* (Augments, which tags nothing); it looks at the elements of a map or a
\* slice only under a "dive" rule, which no field of config carries, so the
\* rules tagged on peer and vrrpInstance are not applied.  "required" fails
\* on a scalar that holds its type's zero value.
ValidateStruct(c) ==
  {f.name : f \in {g \in ScalarFields(configFields) :
                     "required" \in g.rules /\ c.scalars[g.name] = ZeroOf(g.typ)}}

\* defaults.Set on a struct's scalars: a field that declares a default and
\* holds its type's zero value is assigned the default; nothing else changes.
SetDefaults(fields, s) ==
  [n \in DOMAIN s |->
     LET f == FieldOf(fields, n)
     IN IF f.default # "" /\ s[n] = ZeroOf(f.typ) THEN f.default ELSE s[n]]

\* A variant that appends the prefix to both lists.
PrefixesAppendBoth(c, prefix, to4) ==
  [c EXCEPT !.Prefixes4 = Append(@, prefix), !.Prefixes6 = Append(@, prefix)]

\* if pfx.To4() == nil { Prefixes4 = append(...) } else { Prefixes6 = append(...) }
PrefixesAppend(c, prefix, to4) ==
  IF ~to4 THEN [c EXCEPT !.Prefixes4 = Append(@, prefix)]
  ELSE [c EXCEPT !.Prefixes6 = Append(@, prefix)]

\* A variant that makes the maps only when there are static routes.
InitStaticsLazily(aug) ==
  IF DOMAIN aug.Statics = {} THEN aug
  ELSE [aug EXCEPT !.Statics4 = EmptyMap, !.Statics6 = EmptyMap]

\* config.Augments.Statics4 = map[string]string{}, and the same for Statics6
InitStatics(aug) == [aug EXCEPT !.Statics4 = EmptyMap, !.Statics6 = EmptyMap]

\* A variant that keys the family maps by next hop: Statics6[nexthop] = prefix.
StaticsInsertByNexthop(aug, prefix, nexthop, to4) ==
  IF ~to4 THEN [aug EXCEPT !.Statics6 = MapPut(@, nexthop, prefix)]
  ELSE [aug EXCEPT !.Statics4 = MapPut(@, nexthop, prefix)]

\* if pfx.To4() == nil { Statics6[prefix] = nexthop } else { Statics4[prefix] = nexthop }
StaticsInsert(aug, prefix, nexthop, to4) ==
  IF ~to4 THEN [aug EXCEPT !.Statics6 = MapPut(@, prefix, nexthop)]
  ELSE [aug EXCEPT !.Statics4 = MapPut(@, prefix, nexthop)]

\* if ip.To4() == nil { VIPs6 = append(...) } else { VIPs4 = append(...) }
VIPsAppend(inst, vip, to4) ==
  IF ~to4 THEN [inst EXCEPT !.VIPs6 = Append(@, vip)]
  ELSE [inst EXCEPT !.VIPs4 = Append(@, vip)]

RECURSIVE VIPLoop(_, _)
\* The range over the instance's VIPs from index j on: the instance with its
\* family lists filled, or the first VIP that does not parse.
VIPLoop(inst, j) ==
  IF j > Len(inst.VIPs) THEN [inst |-> inst, err |-> Nil]
  ELSE LET vip == inst.VIPs[j]
           parsed == ParseCIDR(vip)
       IN IF parsed.err THEN [inst |-> inst, err |-> <<Error("invalid VIP", vip)>>]
          ELSE VIPLoop(VIPsAppend(inst, vip, parsed.to4), j + 1)

\* if pfx.To4() == nil { PrefixSet4 = append(...) } else { PrefixSet6 = append(...) }
PrefixSetAppend(p, prefix, to4) ==
  IF ~to4 THEN [p EXCEPT !.PrefixSet4 = Append(@, prefix)]
  ELSE [p EXCEPT !.PrefixSet6 = Append(@, prefix)]

RECURSIVE PeerPrefixLoop(_, _)
\* The range over one peer's Prefixes from index j on.
PeerPrefixLoop(p, j) ==
  IF j > Len(p.Prefixes) THEN [peer |-> p, err |-> Nil]
  ELSE LET prefix == p.Prefixes[j]
           parsed == ParseCIDR(prefix)
       IN IF parsed.err THEN [peer |-> p, err |-> <<Error("invalid prefix", prefix)>>]
          ELSE PeerPrefixLoop(PrefixSetAppend(p, prefix, parsed.to4), j + 1)

\* A phase is entered once, however many steps it takes.
Enter(ph) == IF phases # <<>> /\ phases[Len(phases)] = ph THEN phases ELSE Append(phases, ph)

InitLoad ==
  /\ doc \in Documents
  /\ call = 1
  /\ pc = "unmarshal"
  /\ config = ZeroConfig
  /\ todo = {}
  /\ idx = 1
  /\ vrrpInstance = Nil
  /\ phases = <<>>
  /\ ret = Nil
  /\ prev = Nil

\* A return statement: the call ends with result r.
Return(r) ==
  /\ ret' = <<r>>
  /\ pc' = "done"

\* yaml.UnmarshalStrict(configBlob, &config)
UnmarshalStep ==
  /\ pc = "unmarshal"
  /\ phases' = Enter("parse")
  /\ IF UnknownKeys(doc) # {}
     THEN /\ Return(Failure("yaml unmarshal", UnknownKeys(doc)))
          /\ UNCHANGED config
     ELSE /\ config' = Unmarshal(doc)
          /\ pc' = "validate"
          /\ UNCHANGED ret
  /\ UNCHANGED <<docVars, doc, call, todo, idx, vrrpInstance, prev>>

\* validate.Struct(&config)
ValidateStep ==
  /\ pc = "validate"
  /\ phases' = Enter("validate")
  /\ IF ValidateStruct(config) # {}
     THEN Return(Failure("validation", ValidateStruct(config)))
     ELSE /\ pc' = "defaults"
          /\ UNCHANGED ret
  /\ UNCHANGED <<docVars, doc, call, config, todo, idx, vrrpInstance, prev>>

\* defaults.Set(&config); it returns an error only for a value that is not a
\* pointer to a struct, which &config is.
DefaultsStep ==
  /\ pc = "defaults"
  /\ phases' = Enter("defaults")
  /\ config' = [config EXCEPT !.scalars = SetDefaults(configFields, @)]
  /\ pc' = "peerDefaults"
  /\ todo' = DOMAIN config.Peers
  /\ UNCHANGED <<docVars, doc, call, idx, vrrpInstance, ret, prev>>

\* for _, peerData := range config.Peers { defaults.Set(peerData) }
PeerDefaultsStep ==
  /\ pc = "peerDefaults"
  /\ \E name \in todo :
       /\ config' = [config EXCEPT !.Peers[name].scalars = SetDefaults(peerFields, @)]
       /\ todo' = todo \ {name}
  /\ phases' = Enter("peer defaults")
  /\ UNCHANGED <<docVars, doc, call, pc, idx, vrrpInstance, ret, prev>>

PeerDefaultsEnd ==
  /\ pc = "peerDefaults"
  /\ todo = {}
  /\ pc' = "prefixes"
  /\ idx' = 1
  /\ UNCHANGED <<docVars, doc, call, config, todo, vrrpInstance, phases, ret, prev>>

\* for _, prefix := range config.Prefixes { ... }
PrefixStep ==
  /\ pc = "prefixes"
  /\ idx <= Len(config.Prefixes)
  /\ phases' = Enter("normalize")
  /\ LET prefix == config.Prefixes[idx]
         parsed == ParseCIDR(prefix)
     IN IF parsed.err
        THEN /\ Return(Failure("invalid origin prefix", {prefix}))
             /\ UNCHANGED <<config, idx>>
        ELSE /\ config' = PrefixesAppend(config, prefix, parsed.to4)
             /\ idx' = idx + 1
             /\ UNCHANGED <<pc, ret>>
  /\ UNCHANGED <<docVars, doc, call, todo, vrrpInstance, prev>>

\* The prefix range has ended: the two static maps are initialized.
InitStaticsStep ==
  /\ pc = "prefixes"
  /\ idx > Len(config.Prefixes)
  /\ phases' = Enter("normalize")
  /\ config' = [config EXCEPT !.Augments = InitStatics(@)]
  /\ pc' = "statics"
  /\ todo' = DOMAIN config.Augments.Statics
  /\ UNCHANGED <<docVars, doc, call, idx, vrrpInstance, ret, prev>>

\* for prefix, nexthop := range config.Augments.Statics { ... }
StaticStep ==
  /\ pc = "statics"
  /\ \E prefix \in todo :
       LET nexthop == config.Augments.Statics[prefix]
           parsed == ParseCIDR(prefix)
       IN IF parsed.err
          THEN /\ Return(Failure("invalid static prefix", {prefix}))
               /\ UNCHANGED <<config, todo>>
          ELSE IF ParseIPNil(nexthop)
          THEN /\ Return(Failure("invalid static nexthop", {nexthop}))
               /\ UNCHANGED <<config, todo>>
          ELSE /\ config' = [config EXCEPT
                               !.Augments = StaticsInsert(@, prefix, nexthop, parsed.to4)]
               /\ todo' = todo \ {prefix}
               /\ UNCHANGED <<pc, ret>>
  /\ UNCHANGED <<docVars, doc, call, idx, vrrpInstance, phases, prev>>

StaticsEnd ==
  /\ pc = "statics"
  /\ todo = {}
  /\ pc' = "vrrp"
  /\ idx' = 1
  /\ UNCHANGED <<docVars, doc, call, config, todo, vrrpInstance, phases, ret, prev>>

\* The canonical token of a state, "" for a state that has none.
CanonicalState(state) ==
  IF state = "primary" THEN "MASTER" ELSE IF state = "backup" THEN "BACKUP" ELSE ""

\* for _, vrrpInstance := range config.VRRPInstances { ... }: one iteration.
\* The loop variable is a copy of the element; the appends and the assignment
\* of State go to the copy, and config.VRRPInstances is not written.
VRRPStep ==
  /\ pc = "vrrp"
  /\ idx <= Len(config.VRRPInstances)
  /\ LET sorted == VIPLoop(config.VRRPInstances[idx], 1)
         inst == sorted.inst
     IN IF sorted.err # Nil
        THEN /\ Return(Failure(sorted.err[1].kind, {sorted.err[1].cause}))
             /\ vrrpInstance' = <<inst>>
             /\ UNCHANGED idx
        ELSE IF CanonicalState(inst.State) = ""
        THEN /\ Return(Failure("VRRP state must be 'primary' or 'backup', unexpected",
                               {inst.State}))
             /\ vrrpInstance' = <<inst>>
             /\ UNCHANGED idx
        ELSE /\ vrrpInstance' = <<[inst EXCEPT !.State = CanonicalState(@)]>>
             /\ idx' = idx + 1
             /\ UNCHANGED <<pc, ret>>
  /\ UNCHANGED <<docVars, doc, call, config, todo, phases, prev>>

VRRPEnd ==
  /\ pc = "vrrp"
  /\ idx > Len(config.VRRPInstances)
  /\ pc' = "peerPrefixes"
  /\ todo' = DOMAIN config.Peers
  /\ vrrpInstance' = Nil
  /\ UNCHANGED <<docVars, doc, call, config, idx, phases, ret, prev>>

\* for _, peerData := range config.Peers { for _, prefix := range peerData.Prefixes ... }:
\* one peer.  peerData is a pointer, so the appends reach the stored peer.
PeerPrefixStep ==
  /\ pc = "peerPrefixes"
  /\ \E name \in todo :
       LET sorted == PeerPrefixLoop(config.Peers[name], 1)
       IN IF sorted.err # Nil
          THEN /\ Return(Failure(sorted.err[1].kind, {sorted.err[1].cause}))
               /\ config' = [config EXCEPT !.Peers[name] = sorted.peer]
               /\ UNCHANGED todo
          ELSE /\ config' = [config EXCEPT !.Peers[name] = sorted.peer]
               /\ todo' = todo \ {name}
               /\ UNCHANGED <<pc, ret>>
  /\ UNCHANGED <<docVars, doc, call, idx, vrrpInstance, phases, prev>>

\* return &config, nil
ReturnStep ==
  /\ pc = "peerPrefixes"
  /\ todo = {}
  /\ Return(Success(config))
  /\ UNCHANGED <<docVars, doc, call, config, todo, idx, vrrpInstance, phases, prev>>

\* The caller calls loadConfig again with the same bytes: a fresh config.
NextCall ==
  /\ pc = "done"
  /\ call < NumCalls
  /\ call' = call + 1
  /\ prev' = ret
  /\ pc' = "unmarshal"
  /\ config' = ZeroConfig
  /\ todo' = {}
  /\ idx' = 1
  /\ vrrpInstance' = Nil
  /\ phases' = <<>>
  /\ ret' = Nil
  /\ UNCHANGED <<docVars, doc>>

(***************************************************************************)
(* documentConfigTypes.  A type is named by its String(): "main.config",   *)
(* "*main.peer" (the element type of map[string]*peer), ...  A printed     *)
(* line is a record: its kind and its columns; a column that Printf wraps  *)
(* in backticks is marked tick.                                            *)
(***************************************************************************)
RootType == "main.config"

\* t.Elem() for a pointer type, t otherwise.
ElemOfPtr(t) == IF t = "*main.peer" THEN "main.peer" ELSE t

\* The fields of a struct type, t.Field(0) .. t.Field(t.NumField()-1).
TypeFields(t) ==
  CASE t = "main.config" -> configFields
    [] t = "main.peer" -> peerFields
    [] t = "main.iface" -> ifaceFields
    [] t = "main.vrrpInstance" -> vrrpInstanceFields
    [] t = "main.augments" -> augmentsFields

\* strings.Replace(t.String(), "main.", "", -1)
ShownType(t) ==
  CASE t = "main.config" -> "config"
    [] t = "*main.peer" -> "*peer"
    [] t = "main.peer" -> "peer"
    [] t = "main.iface" -> "iface"
    [] t = "main.vrrpInstance" -> "vrrpInstance"
    [] t = "main.augments" -> "augments"

Plain(s) == [tick |-> FALSE, text |-> s]

Tick(s) == [tick |-> TRUE, text |-> s]

Line(kind, cols) == [kind |-> kind, cols |-> cols]

TableHead(t) ==
  <<Line("title", <<Plain(ShownType(t))>>),
    Line("header", <<Plain("Option"), Plain("Type"), Plain("Default"),
                     Plain("Validation"), Plain("Description")>>),
    Line("separator", <<>>)>>

\* A variant that gives every described field a row.
EmitsRowAlways(description) == TRUE

\* description != "-": the field gets a row.
EmitsRow(description) == description # "-"

\* strings.Contains(field.Type.String(), "main."): the field's type is, or
\* holds, a config struct; map and slice types queue their element type.
\* (Replace changes the type's name exactly when it contains "main.".)
QueuedChild(f) ==
  IF f.typ = f.shown THEN <<>>
  ELSE IF f.kind \in {"map", "slice"} THEN <<f.child>>
  ELSE <<f.typ>>

\* fmt.Printf("| `%s` | `%s` | %s | %s | %s |\n", key, type, fDefault, validation, description)
RowOf(f) ==
  Line("row", <<Tick(f.key), Tick(f.shown),
                IF f.default # "" THEN Tick(f.default) ELSE Plain(""),
                Plain(f.validate), Plain(f.description)>>)

Frame(t) == [t |-> t, stage |-> "title", i |-> 1, children |-> <<>>, j |-> 1]

Top == stack[Len(stack)]

SetTop(fr) == [stack EXCEPT ![Len(stack)] = fr]

InitDocumenter ==
  /\ stack = <<Frame(RootType)>>
  /\ out = <<>>

\* The three Println of the table head, and the pointer type's Elem().
DocTitle ==
  /\ stack # <<>>
  /\ Top.stage = "title"
  /\ out' = out \o TableHead(Top.t)
  /\ stack' = SetTop([Top EXCEPT !.t = ElemOfPtr(@), !.stage = "fields"])
  /\ UNCHANGED loadVars

\* One iteration of the loop over the fields.
DocField ==
  /\ stack # <<>>
  /\ Top.stage = "fields"
  /\ Top.i <= Len(TypeFields(Top.t))
  /\ LET f == TypeFields(Top.t)[Top.i]
     IN IF f.description = ""
        THEN \* log.Fatalf: the process ends here
             /\ stack' = SetTop([Top EXCEPT !.stage = "fatal"])
             /\ UNCHANGED out
        ELSE IF EmitsRow(f.description)
        THEN /\ out' = Append(out, RowOf(f))
             /\ stack' = SetTop([Top EXCEPT !.i = @ + 1,
                                            !.children = @ \o QueuedChild(f)])
        ELSE /\ stack' = SetTop([Top EXCEPT !.i = @ + 1])
             /\ UNCHANGED out
  /\ UNCHANGED loadVars

\* fmt.Println() after the last field.
DocEndTable ==
  /\ stack # <<>>
  /\ Top.stage = "fields"
  /\ Top.i > Len(TypeFields(Top.t))
  /\ out' = Append(out, Line("blank", <<>>))
  /\ stack' = SetTop([Top EXCEPT !.stage = "children"])
  /\ UNCHANGED loadVars

\* documentConfigTypes(childType) for the next queued child type.
DocCallChild ==
  /\ stack # <<>>
  /\ Top.stage = "children"
  /\ Top.j <= Len(Top.children)
  /\ stack' = Append(SetTop([Top EXCEPT !.j = @ + 1]), Frame(Top.children[Top.j]))
  /\ UNCHANGED <<out, loadVars>>

\* The call returns once every child type has been documented.
DocReturn ==
  /\ stack # <<>>
  /\ Top.stage = "children"
  /\ Top.j > Len(Top.children)
  /\ stack' = SubSeq(stack, 1, Len(stack) - 1)
  /\ UNCHANGED <<out, loadVars>>

(***************************************************************************)
(* Specifications.  Spec runs loadConfig (twice, on the same document);    *)
(* DocSpec runs documentConfig, which calls documentConfigTypes on the     *)
(* root config type.                                                       *)
(***************************************************************************)
Init ==
  /\ InitLoad
  /\ stack = <<>>
  /\ out = <<>>

Next ==
  \/ UnmarshalStep
  \/ ValidateStep
  \/ DefaultsStep
  \/ PeerDefaultsStep
  \/ PeerDefaultsEnd
  \/ PrefixStep
  \/ InitStaticsStep
  \/ StaticStep
  \/ StaticsEnd
  \/ VRRPStep
  \/ VRRPEnd
  \/ PeerPrefixStep
  \/ ReturnStep
  \/ NextCall

Spec == Init /\ [][Next]_vars

DocInit ==
  /\ InitDocumenter
  /\ doc = Document(ValidRoot, <<>>, Empty, <<>>, Empty)
  /\ call = 1
  /\ pc = "idle"
  /\ config = ZeroConfig
  /\ todo = {}
  /\ idx = 1
  /\ vrrpInstance = Nil
  /\ phases = <<>>
  /\ ret = Nil
  /\ prev = Nil

DocNext ==
  \/ DocTitle
  \/ DocField
  \/ DocEndTable
  \/ DocCallChild
  \/ DocReturn

DocSpec == DocInit /\ [][DocNext]_vars

(***************************************************************************)
(* Properties.                                                             *)
(***************************************************************************)
Done == pc = "done"

Succeeded == Done /\ ret[1].err = Nil /\ ret[1].config # Nil

\* The config a successful call returned.
Returned == ret[1].config[1]

Entries(mp) == {<<k, mp[k]>> : k \in DOMAIN mp}

\* lo and hi hold every string of all, and no string is in both.
Partitions(lo, hi, all) ==
  /\ Range(lo) \cap Range(hi) = {}
  /\ Range(lo) \cup Range(hi) = Range(all)

\* The IPv6 strings of all are in six and the others in four, and nothing else is.
ByFamily(four, six, all) ==
  /\ four = {s \in all : ParseCIDR(s).to4}
  /\ six = {s \in all : ~ParseCIDR(s).to4}

\* C1: after a successful loadConfig every VRRP instance stored in the
\* returned config holds a canonical State: "MASTER" where the document said
\* "primary", "BACKUP" where it said "backup".
C1_StoredStateCanonical ==
  Succeeded =>
    \A i \in DOMAIN Returned.VRRPInstances :
      LET stored == Returned.VRRPInstances[i].State
          given == doc.vrrp[i].state
      IN /\ stored \in {"MASTER", "BACKUP"}
         /\ given = "primary" => stored = "MASTER"
         /\ given = "backup" => stored = "BACKUP"

\* The value a defaulted field must hold if an explicit setting always wins:
\* the document's literal when the key is present, the default otherwise.
ExplicitOrDefault(f, present) == IF f.key \in DOMAIN present THEN present[f.key] ELSE f.default

\* C2: after a successful loadConfig every defaulted field of the root and
\* of every peer holds the document's value when the document set it (also
\* when that value is the type's zero value), and the default only when the
\* document omitted it.
C2_ExplicitValuesKept ==
  Succeeded =>
    /\ \A n \in DefaultedNames(configFields) :
         Returned.scalars[n] = ExplicitOrDefault(FieldOf(configFields, n), doc.root)
    /\ \A p \in DOMAIN Returned.Peers :
         \A n \in DefaultedNames(peerFields) :
           Returned.Peers[p].scalars[n] =
             ExplicitOrDefault(FieldOf(peerFields, n), doc.peers[p].set)

\* C3: after a successful loadConfig Prefixes4 and Prefixes6 partition
\* Prefixes by value: every entry of Prefixes is in exactly one of the two
\* lists and neither list holds anything else.
C3_PrefixesPartitioned ==
  Succeeded => Partitions(Returned.Prefixes4, Returned.Prefixes6, Returned.Prefixes)

\* A successful load whose prefixes went to both lists.
C3_Witness ==
  /\ Succeeded
  /\ Returned.Prefixes4 # <<>>
  /\ Returned.Prefixes6 # <<>>
  /\ Len(Returned.Prefixes) = Len(Returned.Prefixes4) + Len(Returned.Prefixes6)

\* C4: one family rule for all four derived pairs: a CIDR without a 4-byte
\* form lands in the *6 field, every other CIDR in the *4 field, whichever
\* input carries it.
C4_FamilyRuleUniform ==
  Succeeded =>
    /\ ByFamily(Range(Returned.Prefixes4), Range(Returned.Prefixes6),
                Range(Returned.Prefixes))
    /\ \A p \in DOMAIN Returned.Peers :
         ByFamily(Range(Returned.Peers[p].PrefixSet4), Range(Returned.Peers[p].PrefixSet6),
                  Range(Returned.Peers[p].Prefixes))
    /\ \A i \in DOMAIN Returned.VRRPInstances :
         ByFamily(Range(Returned.VRRPInstances[i].VIPs4),
                  Range(Returned.VRRPInstances[i].VIPs6),
                  Range(Returned.VRRPInstances[i].VIPs))
    /\ ByFamily(DOMAIN Returned.Augments.Statics4.m, DOMAIN Returned.Augments.Statics6.m,
                DOMAIN Returned.Augments.Statics)

\* C5: after a successful loadConfig Statics4 and Statics6 are both
\* initialized maps, share no key, and together hold exactly the entries of
\* Statics.
C5_StaticsPartitioned ==
  Succeeded =>
    LET aug == Returned.Augments
    IN /\ ~aug.Statics4.isNil
       /\ ~aug.Statics6.isNil
       /\ DOMAIN aug.Statics4.m \cap DOMAIN aug.Statics6.m = {}
       /\ Entries(aug.Statics4.m) \cup Entries(aug.Statics6.m) = Entries(aug.Statics)

\* A successful load that put static routes in both maps.
C5_Witness ==
  /\ Succeeded
  /\ DOMAIN Returned.Augments.Statics4.m # {}
  /\ DOMAIN Returned.Augments.Statics6.m # {}

\* A peer of the document that lacks "asn", lacks "neighbors" or lists none,
\* or lists a neighbor that is no IP address.
InvalidPeer(p) ==
  \/ "asn" \notin DOMAIN p.set
  \/ ~p.neighbors.set
  \/ p.neighbors.val = <<>>
  \/ \E ip \in Range(p.neighbors.val) : ParseIPNil(ip)

\* The document has a top-level key that no field of config declares.
HasUnknownKey == \E k \in DOMAIN doc.root : \A f \in Range(configFields) : f.key # k

\* C6: a document (that parses) with an invalid peer always fails with a
\* validation error and no config, and never reaches defaulting or
\* normalization.
C6_InvalidPeerFailsValidation ==
  ((\E p \in DOMAIN doc.peers : InvalidPeer(doc.peers[p])) /\ ~HasUnknownKey) =>
    /\ Range(phases) \subseteq {"parse", "validate"}
    /\ Done => /\ ret[1].config = Nil
               /\ ret[1].err # Nil
               /\ ret[1].err[1].kind = "validation"

\* C7: after a successful loadConfig, VIPs4 and VIPs6 of every stored VRRP
\* instance partition that instance's VIPs.
C7_StoredVIPsPartitioned ==
  Succeeded =>
    \A i \in DOMAIN Returned.VRRPInstances :
      LET inst == Returned.VRRPInstances[i]
      IN Partitions(inst.VIPs4, inst.VIPs6, inst.VIPs)

\* "asn" or "router-id" is absent from the document or set to its zero value.
RootInvalid ==
  \/ "asn" \notin DOMAIN doc.root
  \/ "router-id" \notin DOMAIN doc.root
  \/ \E k \in {"asn", "router-id"} \cap DOMAIN doc.root : doc.root[k] \in {"", "0"}

\* Some string the normalizer parses is malformed, or a VRRP state is
\* neither "primary" nor "backup".
NormalizeInvalid ==
  \/ \E s \in Range(doc.prefixes) : s \in BadCIDRs
  \/ \E k \in DOMAIN doc.statics : k \in BadCIDRs \/ doc.statics[k] = "not-an-ip"
  \/ \E i \in DOMAIN doc.vrrp :
       \/ \E s \in Range(doc.vrrp[i].vips) : s \in BadCIDRs
       \/ doc.vrrp[i].state \notin {"primary", "backup"}
  \/ \E p \in DOMAIN doc.peers : \E s \in Range(doc.peers[p].prefixes) : s \in BadCIDRs

NormalizationKinds ==
  {"invalid origin prefix", "invalid static prefix", "invalid static nexthop",
   "invalid VIP", "VRRP state must be 'primary' or 'backup', unexpected", "invalid prefix"}

\* The phases a call that gets through defaulting has entered by then.
LoaderPhases ==
  IF DOMAIN doc.peers = {} THEN <<"parse", "validate", "defaults">>
  ELSE <<"parse", "validate", "defaults", "peer defaults">>

\* The call ended with an error of one of the kinds, having entered ph only.
FailedWith(kinds, ph) ==
  /\ ret[1].config = Nil
  /\ ret[1].err # Nil
  /\ ret[1].err[1].kind \in kinds
  /\ phases = ph

\* C8: loadConfig runs parse, validate, default-fill (root, then peers) and
\* normalize in that order and stops at the first phase that fails: the
\* error is of that phase's kind, no later phase was entered, and exactly
\* one of config and error is nil.  A document with an unknown top-level key
\* fails with the parse error whatever else is wrong with it.
C8_StopsAtFirstFailingPhase ==
  Done =>
    /\ (ret[1].config = Nil) # (ret[1].err = Nil)
    /\ IF HasUnknownKey THEN FailedWith({"yaml unmarshal"}, <<"parse">>)
       ELSE IF RootInvalid THEN FailedWith({"validation"}, <<"parse", "validate">>)
       ELSE IF NormalizeInvalid
       THEN FailedWith(NormalizationKinds, Append(LoaderPhases, "normalize"))
       ELSE /\ Succeeded
            /\ phases = Append(LoaderPhases, "normalize")

\* A document with an unknown key, an invalid root and malformed prefixes
\* has been rejected.
C8_Witness ==
  /\ Done
  /\ HasUnknownKey
  /\ RootInvalid
  /\ NormalizeInvalid
  /\ ret[1].err # Nil

\* The normalizer operation an error comes from.
OperationOf(kind) ==
  CASE kind = "invalid origin prefix" -> "prefixes"
    [] kind \in {"invalid static prefix", "invalid static nexthop"} -> "statics"
    [] kind \in {"invalid VIP", "VRRP state must be 'primary' or 'backup', unexpected"} -> "vrrp"
    [] kind = "invalid prefix" -> "peers"
    [] OTHER -> kind

\* Two calls on the same document have both returned.
BothReturned == Done /\ prev # Nil

\* C10 as claimed: two loads of one document end the same way in everything,
\* the reported error and the value it names included, whatever order the
\* Statics and Peers maps were visited in.
C10_SameOutcomeAnyOrder == BothReturned => ret = prev

\* C10 amended: two loads of one document agree on success or failure, on
\* the whole returned config when they succeed, and on the operation that
\* failed when they fail; the entry the error names may differ.
C10_SameResultAnyOrder ==
  BothReturned =>
    /\ ret[1].config = prev[1].config
    /\ (ret[1].err = Nil) = (prev[1].err = Nil)
    /\ ret[1].err # Nil =>
         OperationOf(ret[1].err[1].kind) = OperationOf(prev[1].err[1].kind)

\* Two loads of one document failed with different errors.
C10_Witness ==
  /\ BothReturned
  /\ ret[1].err # Nil
  /\ prev[1].err # Nil
  /\ ret[1].err # prev[1].err

\* documentConfigTypes has returned to documentConfig.
Documented == stack = <<>> /\ out # <<>>

IsVisible(f) == f.description # "-"

HasChild(f) == f.child # ""

IsTitle(l) == l.kind = "title"

\* The lines of the first table: from the fourth line to the first blank one.
FirstTableRows ==
  LET blank == CHOOSE i \in DOMAIN out :
                 /\ out[i].kind = "blank"
                 /\ \A j \in 1..(i - 1) : out[j].kind # "blank"
  IN SubSeq(out, 4, blank - 1)

\* C9: on the root config type documentConfigTypes prints, in declaration
\* order, one row per field whose description is not "-", with the field's
\* yaml key in the first column; a field whose description is "-" gets no
\* row and queues no child table.
C9_RootTableRows ==
  Documented =>
    LET shown == SelectSeq(configFields, IsVisible)
        rows == FirstTableRows
        titles == SelectSeq(out, IsTitle)
        parents == SelectSeq(shown, HasChild)
    IN /\ out[1] = Line("title", <<Plain("config")>>)
       /\ Len(rows) = Len(shown)
       /\ \A i \in DOMAIN rows :
            /\ rows[i].kind = "row"
            /\ rows[i].cols[1] = Tick(shown[i].key)
       /\ Len(titles) = 1 + Len(parents)
       /\ \A i \in DOMAIN parents : titles[i + 1].cols[1].text = ShownType(parents[i].child)

\* The walk over the root type has finished, and the root type has fields
\* with the "-" description.
C9_Witness ==
  /\ Documented
  /\ \E f \in Range(configFields) : ~IsVisible(f)
  /\ \E i \in DOMAIN out : out[i].kind = "row" /\ out[i].cols[1] = Tick("asn")

=============================================================================
